---- MODULE Spec2Model ----
(***************************************************************************)
(* Auto Reload Scripts (Auto_Reload_Scripts.py): a Blender add-on whose    *)
(* timer callback reloads externally modified python text blocks and       *)
(* optionally runs them.  The model covers the timer callback              *)
(* auto_reload_scripts_timer, register() and unregister(), and the host    *)
(* state they read: bpy.data.texts, bpy.context.scene,                     *)
(* bpy.context.window_manager, bpy.types.Scene, bpy.app.timers.            *)
(*                                                                         *)
(* Times are counted in tenths of a second (0.5 s is 5).  A string the     *)
(* code inspects (a file path) is a sequence of one-character strings.     *)
(***************************************************************************)
EXTENDS Integers, Sequences, FiniteSets, TLC

\* ------------------------------------------------------------------ bounds

\* Largest number of open text blocks in bpy.data.texts.
MaxDocs == 2

\* ------------------------------------------------------- program constants

\* DEFAULT_CHECK_INTERVAL = 0.5
DEFAULT_CHECK_INTERVAL == 5

\* FloatProperty(min=0.1, max=60.0)
IntervalMin == 1

IntervalMax == 600

PROP_INTERVAL == "ars_check_interval"

PROP_RUN_SCRIPT == "ars_run_after_reload"

ARS_PT_ReloadPanel == "ARS_PT_ReloadPanel"

\* The values the interval control is set to in the model.
Intervals == {IntervalMin, DEFAULT_CHECK_INTERVAL, IntervalMax}

\* -------------------------------------------------------------- host data

\* File paths of text blocks: "", "a.py", "B.PY", "b.txt".
Paths ==
  { <<>>,
    <<"a", ".", "p", "y">>,
    <<"B", ".", "P", "Y">>,
    <<"b", ".", "t", "x", "t">> }

\* Areas of a screen: a text editor with its content region, a text editor
\* that has no content region, and a 3D viewport.
TE == [type |-> "TEXT_EDITOR", regions |-> <<"HEADER", "WINDOW">>]

TE_NoWindow == [type |-> "TEXT_EDITOR", regions |-> <<"HEADER">>]

V3D == [type |-> "VIEW_3D", regions |-> <<"WINDOW">>]

\* window_manager.windows: each window is the sequence window.screen.areas.
WindowLayouts ==
  { <<>>,
    << <<V3D>> >>,
    << <<V3D, TE>> >>,
    << <<TE_NoWindow>> >>,
    << <<TE_NoWindow, TE>> >>,
    << <<V3D>>, <<TE>> >>,
    << <<V3D, TE>>, <<TE>> >> }

\* bpy.context.window_manager: None, or a manager with its windows.
WindowManagers ==
  { [available |-> FALSE, windows |-> <<>>] }
  \cup [available : {TRUE}, windows : WindowLayouts]

SeqsUpTo(S, n) == UNION { [1..k -> S] : k \in 0..n }

\* A text block of bpy.data.texts, named by its position.
TextsOf(n) ==
  { ts \in SeqsUpTo([name : 1..n, filepath : Paths, is_modified : BOOLEAN], n) :
      \A i \in 1..Len(ts) : ts[i].name = i }

VARIABLES
  texts,          \* bpy.data.texts
  dataAvailable,  \* bpy.data.texts can be read
  scene,          \* bpy.context.scene: available, and the two property values
  sceneProps,     \* the add-on properties defined on bpy.types.Scene
  wm,             \* bpy.context.window_manager: available, windows
  classes,        \* classes registered with bpy.utils.register_class
  timers,         \* entries of bpy.app.timers for auto_reload_scripts_timer
  menu,           \* entries of ars_text_menu in TEXT_MT_text
  last            \* the last operation: what it was called on and what it did

vars == <<texts, dataAvailable, scene, sceneProps, wm, classes, timers, menu, last>>

\* ------------------------------------------------------- python built-ins

\* str.lower() on one character
lower(c) ==
  CASE c = "A" -> "a"
    [] c = "B" -> "b"
    [] c = "P" -> "p"
    [] c = "T" -> "t"
    [] c = "X" -> "x"
    [] c = "Y" -> "y"
    [] OTHER -> c

\* A variant of str_lower: the comparison made on the path as written.
str_lower_missing(s) == s

\* str.lower()
str_lower(s) == [k \in 1..Len(s) |-> lower(s[k])]

\* str.endswith(suffix)
endswith(s, suffix) ==
  /\ Len(s) >= Len(suffix)
  /\ SubSeq(s, Len(s) - Len(suffix) + 1, Len(s)) = suffix

\* hasattr(bpy.context, "scene") and bpy.context.scene is not None
scene_reachable(sc) == sc.available

\* getattr(bpy.context.scene, prop, default)
getattr(sc, props, prop, default) ==
  IF prop \in props THEN sc[prop] ELSE default


\* ------------------------------------------------------- find_text_editor

\* The (window, area) positions, in window-then-area order, of the text
\* editor areas that have a region of type WINDOW.
EditorAreas(windows) ==
  { p \in UNION { { <<w, a>> : a \in 1..Len(windows[w]) } : w \in 1..Len(windows) } :
      /\ windows[p[1]][p[2]].type = "TEXT_EDITOR"
      /\ \E r \in 1..Len(windows[p[1]][p[2]].regions) :
           windows[p[1]][p[2]].regions[r] = "WINDOW" }

\* A variant of Before: the areas compared before the windows.
Before_area_first(p, q) == p[2] < q[2] \/ (p[2] = q[2] /\ p[1] <= q[1])

\* Window-then-area order: the order of the two nested loops.
Before(p, q) == p[1] < q[1] \/ (p[1] = q[1] /\ p[2] <= q[2])

NoEditor == [found |-> FALSE, window |-> 0, area |-> 0, region |-> 0]

\* A variant of find_text_editor: the area's type is not looked at.
find_text_editor_any_area(windows) ==
  IF \A w \in 1..Len(windows) : windows[w] = <<>> THEN NoEditor
  ELSE
    LET w == CHOOSE k \in 1..Len(windows) :
               windows[k] # <<>> /\ \A j \in 1..(k - 1) : windows[j] = <<>>
    IN [found |-> TRUE, window |-> w, area |-> 1, region |-> 1]

\* find_text_editor(): the first text editor area that has a WINDOW region,
\* with the first such region; None when there is none.
find_text_editor(windows) ==
  IF EditorAreas(windows) = {} THEN NoEditor
  ELSE
    LET p == CHOOSE q \in EditorAreas(windows) :
               \A o \in EditorAreas(windows) : Before(q, o)
        regions == windows[p[1]][p[2]].regions
        r == CHOOSE k \in 1..Len(regions) :
               /\ regions[k] = "WINDOW"
               /\ \A j \in 1..(k - 1) : regions[j] # "WINDOW"
    IN [found |-> TRUE, window |-> p[1], area |-> p[2], region |-> r]

\* ------------------------------------------------ the loop over the texts

\* A variant of is_target: the modified flag is not looked at.
is_target_any_script(text) ==
  /\ text.filepath # <<>>
  /\ endswith(str_lower(text.filepath), <<".", "p", "y">>)

\* A variant of is_target: the suffix of the path is not looked at.
is_target_any_path(text) == text.is_modified

\* text.filepath and text.filepath.lower().endswith('.py') and text.is_modified
is_target(text) ==
  /\ text.filepath # <<>>
  /\ endswith(str_lower(text.filepath), <<".", "p", "y">>)
  /\ text.is_modified

\* interval_prop, read before anything else
interval_of(sc, props) ==
  IF scene_reachable(sc)
  THEN getattr(sc, props, PROP_INTERVAL, DEFAULT_CHECK_INTERVAL)
  ELSE DEFAULT_CHECK_INTERVAL

\* A variant of run_after_reload: the setting is not looked at.
run_after_reload_unchecked(sc, props) == scene_reachable(sc)

\* the test that guards bpy.ops.text.run_script()
run_after_reload(sc, props) ==
  /\ scene_reachable(sc)
  /\ getattr(sc, props, PROP_RUN_SCRIPT, FALSE)

\* the context override of one iteration
override_for(ctx, i) ==
  [window |-> ctx.window, area |-> ctx.area, region |-> ctx.region, edit_text |-> i]

\* What a script run by bpy.ops.text.run_script() may do to the add-on's
\* settings: nothing, clear the run flag, or set the interval.
ScriptEffects == {"none", "run_off", "set_interval"}

script_effect(sc, effect) ==
  CASE effect = "run_off" -> [sc EXCEPT !.ars_run_after_reload = FALSE]
    [] effect = "set_interval" -> [sc EXCEPT !.ars_check_interval = IntervalMin]
    [] OTHER -> sc

\* One call of a host operator as the tick made it: the operator, the text
\* block it was targeted at, whether it raised, and the settings at the call.
Call(op, target, raised, sc) ==
  [op |-> op, text |-> target, raised |-> raised, scene |-> sc]

\* A variant of op_reload: the modified flag is cleared by a reload that
\* raised, too.
op_reload_clears_always(st, ov, ok) ==
  [st EXCEPT
     !.texts = [@ EXCEPT ![ov.edit_text].is_modified = FALSE],
     !.log = Append(@, Call("reload", ov.edit_text, ~ok, st.scene))]

\* A variant of op_reload: the poller gives up on a text block whose reload
\* failed, by unlinking it from its file.
op_reload_unlinks_failed(st, ov, ok) ==
  [st EXCEPT
     !.texts = IF ok THEN [@ EXCEPT ![ov.edit_text].is_modified = FALSE]
               ELSE [@ EXCEPT ![ov.edit_text].filepath = <<>>],
     !.log = Append(@, Call("reload", ov.edit_text, ~ok, st.scene))]

\* bpy.ops.text.reload() under the override: the host clears is_modified of
\* the override's edit_text, or raises and leaves it.
op_reload(st, ov, ok) ==
  [st EXCEPT
     !.texts = IF ok THEN [@ EXCEPT ![ov.edit_text].is_modified = FALSE] ELSE @,
     !.log = Append(@, Call("reload", ov.edit_text, ~ok, st.scene))]

\* A variant of op_run_script: run outside the override, on the first text
\* block.
op_run_script_no_override(st, ov, ok, effect) ==
  [st EXCEPT
     !.scene = script_effect(@, effect),
     !.log = Append(@, Call("run_script", 1, ~ok, st.scene))]

\* bpy.ops.text.run_script() under the override: runs the override's
\* edit_text; the script may change the settings, and the call may raise.
op_run_script(st, ov, ok, effect) ==
  [st EXCEPT
     !.scene = script_effect(@, effect),
     !.log = Append(@, Call("run_script", ov.edit_text, ~ok, st.scene))]

\* except Exception as exc_run: whether an exception raised by run_script
\* leaves the inner try statement
run_script_escapes(raised) == FALSE

\* A variant of reload_escapes: no handler around the reload.
reload_escapes_uncaught(raised) == raised

\* except Exception as exc: whether an exception raised by reload leaves the
\* outer try statement
reload_escapes(raised) == FALSE

\* The try block of one iteration, after a reload that succeeded.
after_reload(st, ov, props) ==
  IF run_after_reload(st.scene, props)
  THEN { [op_run_script(st, ov, ok, eff) EXCEPT !.exc = run_script_escapes(~ok)] :
           ok \in BOOLEAN, eff \in ScriptEffects }
  ELSE {st}

\* A variant of text_body: the run-after-reload step placed after the try
\* statement, where a failed reload reaches it too.
text_body_runs_after_failure(st, i, ctx, props) ==
  IF ~is_target(st.texts[i]) THEN {st}
  ELSE
    LET ov == override_for(ctx, i) IN
      after_reload([op_reload(st, ov, FALSE) EXCEPT !.exc = reload_escapes(TRUE)], ov, props)
      \cup after_reload(op_reload(st, ov, TRUE), ov, props)

\* One iteration of "for text in bpy.data.texts": every outcome the host's
\* operators allow.  st is [texts, scene, log, exc, ctx].
text_body(st, i, ctx, props) ==
  IF ~is_target(st.texts[i]) THEN {st}
  ELSE
    LET ov == override_for(ctx, i) IN
      { [op_reload(st, ov, FALSE) EXCEPT !.exc = reload_escapes(TRUE)] }
      \cup after_reload(op_reload(st, ov, TRUE), ov, props)

\* for text in bpy.data.texts: an exception that escapes an iteration ends
\* the loop.
RECURSIVE for_texts(_, _, _, _)
for_texts(st, i, ctx, props) ==
  IF i > Len(st.texts) \/ st.exc THEN {st}
  ELSE UNION { for_texts(s, i + 1, ctx, props) : s \in text_body(st, i, ctx, props) }

\* A variant of Returned: the interval read again when the tick returns.
Returned_rereads_interval(delay, st) ==
  [raised |-> FALSE,
   delay |-> IF st.scene.available THEN st.scene.ars_check_interval ELSE delay,
   texts |-> st.texts, scene |-> st.scene, log |-> st.log, ctx |-> st.ctx]

\* The result of a call of auto_reload_scripts_timer.
Returned(delay, st) ==
  [raised |-> FALSE, delay |-> delay, texts |-> st.texts, scene |-> st.scene,
   log |-> st.log, ctx |-> st.ctx]

Raised(st) ==
  [raised |-> TRUE, delay |-> 0, texts |-> st.texts, scene |-> st.scene,
   log |-> st.log, ctx |-> st.ctx]

\* auto_reload_scripts_timer(): every run the host's state allows.
timer_runs(ts, dataOk, sc, props, w) ==
  LET interval_prop == interval_of(sc, props)
      st0 == [texts |-> ts, scene |-> sc, log |-> <<>>, exc |-> FALSE, ctx |-> NoEditor]
  IN
    IF ~w.available THEN {Raised(st0)}
    ELSE
      LET editor_ctx == find_text_editor(w.windows)
          st1 == [st0 EXCEPT !.ctx = editor_ctx]
      IN
        IF ~editor_ctx.found THEN {Returned(interval_prop, st1)}
        ELSE IF ~dataOk THEN {Raised(st1)}
        ELSE { IF s.exc THEN Raised(s) ELSE Returned(interval_prop, s) :
                 s \in for_texts(st1, 1, editor_ctx, props) }


\* ------------------------------------------------------------ host's API

\* A variant of register_class_raises: registering twice is accepted.
register_class_accepts(cls) == FALSE

\* bpy.utils.register_class(cls) raises ValueError for a class that is
\* already registered.
register_class_raises(cls) == cls \in classes

\* bpy.utils.unregister_class(cls) raises RuntimeError for a class that is
\* not registered.
unregister_class_raises(cls) == cls \notin classes

\* bpy.app.timers.register(auto_reload_scripts_timer, ...) adds an entry to
\* the host's list of timers.  (The comment on the call expects the host to
\* replace an entry already there; register() never reaches the call with
\* an entry present, so nothing below depends on which it is.)
timers_register(n) == n + 1

\* A variant of timers_unregister: the timer is left registered.
timers_unregister_missing(n) == n

\* bpy.app.timers.unregister(auto_reload_scripts_timer) removes an entry;
\* it raises ValueError when there is none, which unregister() passes over.
timers_unregister(n) == IF n > 0 THEN n - 1 ELSE n

\* TEXT_MT_text.remove(ars_text_menu); ValueError is passed over.
menu_remove(n) == IF n > 0 THEN n - 1 ELSE n

\* The statements of unregister(), in the order they are written: the timer,
\* the scene properties, the classes, the menu entry.
unregister_steps == <<"timers", "props", "classes", "menu">>

\* One statement of unregister() on r = [timers, sceneProps, classes, menu,
\* raised, steps]; steps lists the statements begun.
unregister_step(r, name) ==
  LET s == [r EXCEPT !.steps = Append(@, name)] IN
    CASE name = "timers" -> [s EXCEPT !.timers = timers_unregister(@)]
      [] name = "props" -> [s EXCEPT !.sceneProps = @ \ {PROP_INTERVAL, PROP_RUN_SCRIPT}]
      [] name = "classes" ->
           IF unregister_class_raises(ARS_PT_ReloadPanel)
           THEN [s EXCEPT !.raised = TRUE]
           ELSE [s EXCEPT !.classes = @ \ {ARS_PT_ReloadPanel}]
      [] OTHER -> [s EXCEPT !.menu = menu_remove(@)]

\* The statements of unregister() from the k-th on, up to the one that raises.
RECURSIVE unregister_from(_, _)
unregister_from(r, k) ==
  IF k > Len(unregister_steps) \/ r.raised THEN r
  ELSE unregister_from(unregister_step(r, unregister_steps[k]), k + 1)

\* ------------------------------------------------------- last operation

NoScene == [available |-> FALSE, ars_check_interval |-> 0, ars_run_after_reload |-> FALSE]

NoPrev == [failed |-> {}, reloaded |-> {}, run_failed |-> {}]

\* What the tick just before did, for a tick that follows a tick directly:
\* the text blocks whose reload raised, whose reload succeeded, and whose
\* run_script raised.
PrevOf(l) ==
  IF l.op # "tick" THEN NoPrev
  ELSE
    LET Texts(op, raised) ==
          { l.log[k].text :
              k \in { j \in 1..Len(l.log) : l.log[j].op = op /\ l.log[j].raised = raised } }
    IN [failed |-> Texts("reload", TRUE),
        reloaded |-> Texts("reload", FALSE),
        run_failed |-> Texts("run_script", TRUE)]

\* What an operation other than a tick leaves in last.
Done(op, raised, timersBefore) ==
  [op |-> op, raised |-> raised, delay |-> 0, log |-> <<>>, ctx |-> NoEditor,
   prev |-> NoPrev, steps |-> <<>>,
   pre_texts |-> <<>>, pre_scene |-> NoScene, pre_timers |-> timersBefore]

\* ------------------------------------------------------------------ Init

Init ==
  /\ texts \in TextsOf(MaxDocs)
  /\ dataAvailable \in BOOLEAN
  /\ scene \in [available : BOOLEAN,
                ars_check_interval : {DEFAULT_CHECK_INTERVAL},
                ars_run_after_reload : {FALSE}]
  /\ sceneProps = {}
  /\ wm \in WindowManagers
  /\ classes = {}
  /\ timers = 0
  /\ menu = 0
  /\ last = Done("init", FALSE, 0)

\* --------------------------------------------------------------- actions

\* The host calls the timer callback of one of its entries.  A callback that
\* raises loses its entry; one that returns is scheduled again after the
\* delay it returned.
auto_reload_scripts_timer ==
  /\ timers > 0
  /\ \E run \in timer_runs(texts, dataAvailable, scene, sceneProps, wm) :
       /\ texts' = run.texts
       /\ scene' = run.scene
       /\ timers' = IF run.raised THEN timers - 1 ELSE timers
       /\ last' = [op |-> "tick", raised |-> run.raised, delay |-> run.delay,
                   log |-> run.log, ctx |-> run.ctx, prev |-> PrevOf(last),
                   steps |-> <<>>, pre_texts |-> texts, pre_scene |-> scene,
                   pre_timers |-> timers]
  /\ UNCHANGED <<dataAvailable, sceneProps, wm, classes, menu>>

\* register()
register ==
  IF register_class_raises(ARS_PT_ReloadPanel)
  THEN /\ last' = Done("register", TRUE, timers)
       /\ UNCHANGED <<texts, dataAvailable, scene, sceneProps, wm, classes, timers, menu>>
  ELSE /\ classes' = classes \cup {ARS_PT_ReloadPanel}
       /\ sceneProps' = sceneProps \cup {PROP_INTERVAL, PROP_RUN_SCRIPT}
       /\ timers' = timers_register(timers)
       /\ menu' = menu + 1
       /\ last' = Done("register", FALSE, timers)
       /\ UNCHANGED <<texts, dataAvailable, scene, wm>>

\* unregister()
unregister ==
  LET r == unregister_from([timers |-> timers, sceneProps |-> sceneProps,
                            classes |-> classes, menu |-> menu,
                            raised |-> FALSE, steps |-> <<>>], 1)
  IN /\ timers' = r.timers
     /\ sceneProps' = r.sceneProps
     /\ classes' = r.classes
     /\ menu' = r.menu
     /\ last' = [Done("unregister", r.raised, timers) EXCEPT !.steps = r.steps]
     /\ UNCHANGED <<texts, dataAvailable, scene, wm>>

\* The file of a text block changes on disk: the host sets is_modified.
HostFileChanged ==
  /\ \E i \in 1..Len(texts) :
       /\ ~texts[i].is_modified
       /\ texts' = [texts EXCEPT ![i].is_modified = TRUE]
  /\ last' = Done("host", FALSE, timers)
  /\ UNCHANGED <<dataAvailable, scene, sceneProps, wm, classes, timers, menu>>

\* The user opens, closes or rearranges windows and areas, or the window
\* manager comes and goes.
HostWindows ==
  /\ \E w \in WindowManagers :
       /\ w # wm
       /\ wm' = w
  /\ last' = Done("host", FALSE, timers)
  /\ UNCHANGED <<texts, dataAvailable, scene, sceneProps, classes, timers, menu>>

\* bpy.data and bpy.context.scene come and go.
HostContext ==
  /\ \E d \in BOOLEAN, a \in BOOLEAN :
       /\ <<d, a>> # <<dataAvailable, scene.available>>
       /\ dataAvailable' = d
       /\ scene' = [scene EXCEPT !.available = a]
  /\ last' = Done("host", FALSE, timers)
  /\ UNCHANGED <<texts, sceneProps, wm, classes, timers, menu>>

\* The user edits a setting in the panel or the menu.
UiSetInterval ==
  /\ scene.available
  /\ PROP_INTERVAL \in sceneProps
  /\ \E v \in Intervals :
       /\ v # scene.ars_check_interval
       /\ scene' = [scene EXCEPT !.ars_check_interval = v]
  /\ last' = Done("host", FALSE, timers)
  /\ UNCHANGED <<texts, dataAvailable, sceneProps, wm, classes, timers, menu>>

UiSetRunAfterReload ==
  /\ scene.available
  /\ PROP_RUN_SCRIPT \in sceneProps
  /\ scene' = [scene EXCEPT !.ars_run_after_reload = ~@]
  /\ last' = Done("host", FALSE, timers)
  /\ UNCHANGED <<texts, dataAvailable, sceneProps, wm, classes, timers, menu>>

Next ==
  \/ auto_reload_scripts_timer
  \/ register
  \/ unregister
  \/ HostFileChanged
  \/ HostWindows
  \/ HostContext
  \/ UiSetInterval
  \/ UiSetRunAfterReload

Spec == Init /\ [][Next]_vars


\* ============================================================= the claims

\* What the claims mean by their words, stated apart from the code.

Ticked == last.op = "tick"

CallsOf(op) == { k \in 1..Len(last.log) : last.log[k].op = op }

CallsOn(op, i) == { k \in CallsOf(op) : last.log[k].text = i }

\* The path ends, whatever the case of its letters, in ".py".
HasScriptSuffix(path) ==
  /\ Len(path) >= 3
  /\ path[Len(path) - 2] = "."
  /\ path[Len(path) - 1] \in {"p", "P"}
  /\ path[Len(path)] \in {"y", "Y"}

\* A document the tick is to reload.
Qualifies(doc) == doc.filepath # <<>> /\ HasScriptSuffix(doc.filepath) /\ doc.is_modified

\* The documents of the store, as far as the tick can read the store, that
\* it is to reload.
Qualifying ==
  { i \in 1..Len(last.pre_texts) : dataAvailable /\ Qualifies(last.pre_texts[i]) }

\* Some window shows a text editor area that has its content region.
EditorVisible ==
  /\ wm.available
  /\ \E w \in 1..Len(wm.windows) : \E a \in 1..Len(wm.windows[w]) :
       /\ wm.windows[w][a].type = "TEXT_EDITOR"
       /\ \E r \in 1..Len(wm.windows[w][a].regions) : wm.windows[w][a].regions[r] = "WINDOW"

\* The windows can be listed and none shows a text editor area.
NoEditorVisible ==
  /\ wm.available
  /\ \A w \in 1..Len(wm.windows) : \A a \in 1..Len(wm.windows[w]) :
       wm.windows[w][a].type # "TEXT_EDITOR"

\* PollerConfig as the tick finds it: the interval, and the run flag.
ConfiguredInterval(sc) ==
  IF sc.available /\ PROP_INTERVAL \in sceneProps
  THEN sc.ars_check_interval ELSE DEFAULT_CHECK_INTERVAL

ConfiguredRun(sc) ==
  sc.available /\ PROP_RUN_SCRIPT \in sceneProps /\ sc.ars_run_after_reload

\* C1: a tick never raises: whatever the host's failures, it ends by
\* returning a delay.  The code raises when the window manager or the
\* document store is unavailable.
C1_TickNeverRaises == Ticked => ~last.raised

\* C2: when the reload or the execute of a qualifying document D1 fails,
\* every qualifying document D2 enumerated after D1 in the same tick still
\* has reload invoked on it, after the failure.
C2_FailureIsolation ==
  Ticked =>
    \A k \in 1..Len(last.log) :
      last.log[k].raised =>
        \A j \in Qualifying :
          j > last.log[k].text => \E m \in CallsOn("reload", j) : m > k

C2_Witness ==
  /\ Ticked
  /\ \E k \in CallsOn("reload", 1) : last.log[k].raised
  /\ \E k \in CallsOn("run_script", 2) : last.log[k].raised
  /\ CallsOn("reload", 2) # {}

\* C3: a tick never invokes reload on a document whose path is empty or does
\* not end, case-insensitively, in ".py", or whose modified flag is false.
C3_OnlyQualifyingReloaded ==
  Ticked => \A k \in CallsOf("reload") : last.log[k].text \in Qualifying

C3_Witness ==
  /\ Ticked
  /\ CallsOf("reload") # {}
  /\ \E i \in 1..Len(last.pre_texts) :
       last.pre_texts[i].is_modified /\ ~HasScriptSuffix(last.pre_texts[i].filepath)

\* C4 as stated: with a visible editor, a tick invokes exactly one reload on
\* every qualifying document of the store and the document's modified flag is
\* cleared when the tick ends.
C4_ReloadedOnceAndCleared ==
  (Ticked /\ EditorVisible) =>
    \A i \in Qualifying :
      /\ Cardinality(CallsOn("reload", i)) = 1
      /\ ~texts[i].is_modified

\* C4 as amended: with a visible editor, a tick invokes exactly one reload on
\* every qualifying document of the store; the document's modified flag is
\* cleared when the tick ends if that reload succeeded and is still set if it
\* failed.
C4_ReloadedOnceClearedOnSuccess ==
  (Ticked /\ EditorVisible) =>
    \A i \in Qualifying :
      /\ Cardinality(CallsOn("reload", i)) = 1
      /\ \A k \in CallsOn("reload", i) : texts[i].is_modified = last.log[k].raised

C4_Witness ==
  /\ Ticked /\ EditorVisible
  /\ \E i \in Qualifying :
       /\ last.pre_texts[i].filepath = <<"B", ".", "P", "Y">>
       /\ ~texts[i].is_modified
  /\ \E i \in Qualifying : texts[i].is_modified

\* C5: when runAfterReload is true as the reload of D succeeds, execute is
\* invoked exactly once on D in that tick, right after D's reload and
\* targeted at D.
C5_ExecuteOnceAfterReload ==
  Ticked =>
    \A k \in CallsOf("reload") :
      (~last.log[k].raised /\ ConfiguredRun(last.log[k].scene)) =>
        /\ k + 1 \in CallsOn("run_script", last.log[k].text)
        /\ Cardinality(CallsOn("run_script", last.log[k].text)) = 1

C5_Witness ==
  /\ Ticked
  /\ \E k \in CallsOn("reload", 2) :
       /\ ~last.log[k].raised
       /\ ConfiguredRun(last.log[k].scene)
       /\ k + 1 \in CallsOn("run_script", 2)

\* C6: when runAfterReload is false, a tick never invokes execute, whether
\* its reloads succeed or fail.
C6_NoExecuteWhenOff ==
  (Ticked /\ ~ConfiguredRun(last.pre_scene)) => CallsOf("run_script") = {}

C6_Witness ==
  /\ Ticked
  /\ ~ConfiguredRun(last.pre_scene)
  /\ last.pre_scene.available
  /\ \E k \in CallsOf("reload") : last.log[k].raised
  /\ \E k \in CallsOf("reload") : ~last.log[k].raised

\* C7: every tick returns a delay, equal to the interval configured when it
\* is called, or to the default 0.5 when no configuration is reachable.  A
\* tick that raises returns none.
C7_TickReturnsInterval ==
  Ticked => (~last.raised /\ last.delay = ConfiguredInterval(last.pre_scene))

\* C8: with no visible script editor, a tick makes no reload and no execute
\* call, leaves every document's modified flag as it was, and returns the
\* configured interval.
C8_NoEditorNoWork ==
  (Ticked /\ NoEditorVisible) =>
    /\ ~last.raised
    /\ last.log = <<>>
    /\ texts = last.pre_texts
    /\ last.delay = ConfiguredInterval(last.pre_scene)

C8_Witness ==
  /\ Ticked /\ NoEditorVisible
  /\ wm.windows # <<>>
  /\ dataAvailable
  /\ Qualifying # {}
  /\ last.delay = IntervalMax

\* C9: unregister() called when the poller is already unregistered or was
\* never registered does not raise and leaves the poller unregistered.
C9_UnregisterIdempotent ==
  (last.op = "unregister" /\ last.pre_timers = 0) => (~last.raised /\ timers = 0)

\* C10: after any sequence of register() calls there is at most one timer
\* entry of the callback, and a register() made while the poller is active
\* leaves the timer entries as they were.
C10_AtMostOneTimer ==
  /\ timers <= 1
  /\ (last.op = "register" /\ last.pre_timers > 0) => timers = last.pre_timers

C10_Witness ==
  /\ last.op = "register"
  /\ last.pre_timers = 1
  /\ timers = 1

\* C11: a tick never changes a document's path and never adds or removes a
\* document; the only change it makes to a document is the one the host's
\* reload makes, the clearing of the modified flag by a reload that succeeded.
C11_DocumentsFramed ==
  Ticked =>
    /\ Len(texts) = Len(last.pre_texts)
    /\ \A i \in 1..Len(last.pre_texts) :
         /\ i <= Len(texts)
         /\ texts[i].name = last.pre_texts[i].name
         /\ texts[i].filepath = last.pre_texts[i].filepath
         /\ texts[i].is_modified # last.pre_texts[i].is_modified =>
              \E k \in CallsOn("reload", i) : ~last.log[k].raised

C11_Witness ==
  /\ Ticked
  /\ \E k \in CallsOf("reload") : last.log[k].raised
  /\ \E k \in CallsOf("reload") : ~last.log[k].raised
  /\ CallsOf("run_script") # {}
  /\ texts # last.pre_texts

\* C12: a reload that failed on D is never followed by an execute of D in
\* the same tick, also when runAfterReload is true.
C12_NoExecuteAfterFailedReload ==
  Ticked =>
    \A k \in CallsOf("reload") :
      last.log[k].raised => CallsOn("run_script", last.log[k].text) = {}

C12_Witness ==
  /\ Ticked
  /\ \E k \in CallsOf("reload") :
       /\ last.log[k].raised
       /\ ConfiguredRun(last.log[k].scene)
  /\ CallsOf("run_script") # {}

\* The reload at position k of the log is followed by an execute of the same
\* document.
ExecutedAfter(k) ==
  k + 1 \in CallsOn("run_script", last.log[k].text)

ReloadsDone == { k \in CallsOf("reload") : ~last.log[k].raised }

\* The settings as they were at some moment of the tick.
SettingsSeen ==
  {last.pre_scene, scene} \cup { last.log[k].scene : k \in 1..Len(last.log) }

\* C13 as stated: one snapshot of the settings, taken in the tick, decides for
\* every reloaded document whether it is executed, and gives the interval the
\* tick returns.
C13_OneSnapshotPerTick ==
  Ticked =>
    \E sc \in SettingsSeen :
      /\ \A k \in ReloadsDone : ExecutedAfter(k) <=> ConfiguredRun(sc)
      /\ ~last.raised => last.delay = ConfiguredInterval(sc)

\* C13 as amended: the interval a tick returns is the one read at its start,
\* whatever happens to it during the tick; runAfterReload is read again for
\* each document, after its reload succeeded, and the document is executed
\* exactly when it is true at that moment.
C13_IntervalOnceRunPerDocument ==
  Ticked =>
    /\ ~last.raised => last.delay = ConfiguredInterval(last.pre_scene)
    /\ \A k \in ReloadsDone : ExecutedAfter(k) <=> ConfiguredRun(last.log[k].scene)

C13_Witness ==
  /\ Ticked
  /\ ~last.raised
  /\ \E k \in ReloadsDone : \E m \in ReloadsDone :
       k < m /\ ExecutedAfter(k) /\ ~ExecutedAfter(m)

\* The areas of the windows, by window and area position, and their order.
AreaPositions ==
  UNION { { <<w, a>> : a \in 1..Len(wm.windows[w]) } : w \in 1..Len(wm.windows) }

AreaAt(p) == wm.windows[p[1]][p[2]]

Earlier(p, q) == p[1] < q[1] \/ (p[1] = q[1] /\ p[2] < q[2])

FirstOf(S) == CHOOSE p \in S : \A q \in S \ {p} : Earlier(p, q)

ContentRegions(p) ==
  { r \in 1..Len(AreaAt(p).regions) : AreaAt(p).regions[r] = "WINDOW" }

TextEditorAreas == { p \in AreaPositions : AreaAt(p).type = "TEXT_EDITOR" }

TextEditorAreasWithContent == { p \in TextEditorAreas : ContentRegions(p) # {} }

\* The editor context made of area p and its first content region.
ContextAt(p) ==
  [found |-> TRUE, window |-> p[1], area |-> p[2],
   region |-> CHOOSE r \in ContentRegions(p) : \A o \in ContentRegions(p) : r <= o]

SkippedForNoEditor == ~last.ctx.found /\ last.log = <<>>

\* C14 as stated: the editor context is that of the first text editor area,
\* in window-then-area order, with its content region; the tick skips its
\* reload work when that first text editor area has no content region.
C14_FirstTextEditorArea ==
  (Ticked /\ wm.available) =>
    IF TextEditorAreas = {} THEN SkippedForNoEditor
    ELSE IF ContentRegions(FirstOf(TextEditorAreas)) = {} THEN SkippedForNoEditor
    ELSE last.ctx = ContextAt(FirstOf(TextEditorAreas))

\* C14 as amended: the editor context is that of the first text editor area,
\* in window-then-area order, that has a content region; the tick skips its
\* reload work only when no text editor area has one.
C14_FirstTextEditorAreaWithContent ==
  (Ticked /\ wm.available) =>
    IF TextEditorAreasWithContent = {} THEN SkippedForNoEditor
    ELSE last.ctx = ContextAt(FirstOf(TextEditorAreasWithContent))

C14_Witness ==
  /\ Ticked /\ wm.available
  /\ TextEditorAreas # {}
  /\ ContentRegions(FirstOf(TextEditorAreas)) = {}
  /\ last.ctx.found
  /\ last.ctx.area = 2
  /\ CallsOf("reload") # {}

\* The calls the step's tick made, read in the state the step leads to.
TickStep == last'.op = "tick"

NextCallsOn(op, i) ==
  { k \in 1..Len(last'.log) : last'.log[k].op = op /\ last'.log[k].text = i }

\* C15: a document is reloaded and executed at most once per external
\* modification.  A reload that succeeded leaves D's modified flag clear, also
\* when the execute of D failed; while the flag is clear no tick invokes
\* reload or execute on D; and only the host's noticing a change of the file
\* sets the flag again.
C15_OncePerModification ==
  [][ /\ TickStep =>
           \A k \in 1..Len(last'.log) :
             (last'.log[k].op = "reload" /\ ~last'.log[k].raised) =>
               ~texts'[last'.log[k].text].is_modified
      /\ \A i \in 1..Len(texts) :
           ~texts[i].is_modified =>
             /\ TickStep => (NextCallsOn("reload", i) = {} /\ NextCallsOn("run_script", i) = {})
             /\ texts'[i].is_modified => last'.op = "host"
    ]_vars

C15_Witness ==
  /\ Ticked
  /\ CallsOf("reload") # {}
  /\ \E i \in last.prev.reloaded \cap last.prev.run_failed :
       /\ HasScriptSuffix(last.pre_texts[i].filepath)
       /\ ~last.pre_texts[i].is_modified
       /\ CallsOn("reload", i) = {}
       /\ CallsOn("run_script", i) = {}

\* C16: a failed reload is retried without limit.  A reload of D that failed
\* leaves D qualifying; D's modified flag stays set until a reload of D
\* succeeds; and every tick that finds a visible editor and can read the store
\* invokes reload on every document that qualifies when it starts, however
\* many reloads of it failed before.
C16_FailedReloadRetried ==
  [][ \A i \in 1..Len(texts) :
        /\ (TickStep /\ \E k \in NextCallsOn("reload", i) : last'.log[k].raised) =>
             Qualifies(texts'[i])
        /\ (texts[i].is_modified /\ ~texts'[i].is_modified) =>
             (TickStep /\ \E k \in NextCallsOn("reload", i) : ~last'.log[k].raised)
        /\ (TickStep /\ EditorVisible /\ dataAvailable /\ Qualifies(texts[i])) =>
             NextCallsOn("reload", i) # {}
    ]_vars

C16_Witness ==
  /\ Ticked /\ EditorVisible
  /\ \E i \in last.prev.failed : \E k \in CallsOn("reload", i) : last.log[k].raised
  /\ \E i \in last.prev.failed : \E k \in CallsOn("reload", i) : ~last.log[k].raised

\* C17: a tick never ends the schedule: once registered, the poller keeps its
\* timer entry until unregister() removes it (and so, under a fair scheduler,
\* every qualifying document modified while an editor stays visible is
\* reloaded in the end).  A tick that raises loses the entry.
C17_ScheduledUntilUnregister ==
  [][ (timers > 0 /\ timers' < timers) => last'.op = "unregister" ]_vars

\* The poller registered and never unregistered, its timer entry lost, and a
\* qualifying document waiting with an editor visible.
C17_Stranded ==
  /\ last.op = "host"
  /\ ARS_PT_ReloadPanel \in classes
  /\ timers = 0
  /\ EditorVisible /\ dataAvailable
  /\ \E i \in 1..Len(texts) : Qualifies(texts[i])

\* The position in the last unregister() of the statement that removes what.
StepOf(name) == { k \in 1..Len(last.steps) : last.steps[k] = name }

\* C18: after an unregister(), whatever calls of register() and unregister()
\* came before and whether or not it raised, no timer entry of the callback
\* is left and no tick can occur; and unregister() removes the timer before it
\* deletes the configuration properties.
C18_NoTimerAfterUnregister ==
  last.op = "unregister" =>
    /\ timers = 0
    /\ ~ENABLED auto_reload_scripts_timer
    /\ \E a \in StepOf("timers") : \E b \in StepOf("props") : a < b

C18_Witness ==
  /\ last.op = "unregister"
  /\ last.pre_timers = 1
  /\ ~last.raised
  /\ timers = 0
  /\ sceneProps = {}

====
